---- MODULE Spec2Model ----
(***************************************************************************)
(* robo-swimmer: the simulation core of game.py / gameutil.py.             *)
(*                                                                         *)
(* Units.  The player's y is a float that moves by velocity_up / 2 and by  *)
(* gravity / 3 per tick; it is kept here exactly, in sixths of a pixel     *)
(* (y = 6 * self.y).  velocity_up is kept in whole units (gravity / 4 is   *)
(* whole for gravity = 8).  pygame's Rect truncates float coordinates      *)
(* towards zero.  The float self.y carries the rounding error of the sum   *)
(* of the gravity / 3 terms, so where the exact y is a whole number the    *)
(* float lies at it or just beside it and int(self.y) is that number or    *)
(* its neighbour towards zero: top, the value int(self.y) has, is a        *)
(* variable of its own, drawn from Tops(y) each time y changes.  Time is   *)
(* kept in whole milliseconds (SECONDS_PER_FRAME = 0.016 s = 16 ms).       *)
(***************************************************************************)
EXTENDS Integers, Sequences, FiniteSets, TLC

VARIABLES
    state,              \* Game.state
    y,                  \* Player.y, in sixths of a pixel
    top,                \* int(Player.y): the top of the player's hitbox
    velocity_up,        \* Player.velocity_up
    obstacles,          \* Game.obstacles: the deque, front first
    obstacles_passed,   \* Game.obstacles_passed
    distance_traveled,  \* Game.distance_traveled
    pc,                 \* position in Game.start()
    lag,                \* start(): lag, in ms
    elapsed,            \* start(): previous - (time of init_game), in ms
    fitness,            \* <<the fitness start() printed>>, <<>> before
    drawn,              \* history: the offsets randint gave the obstacles, in order
    since,              \* history: update() calls since the last Obstacle()
    swam,               \* history: swim() has been called
    branch,             \* history: the last operation called: "swim", the
                        \* branch the last Player.update took, or a query's name
    returned            \* history: what the last get_next_obstacle() called
                        \* directly returned

vars == <<state, y, top, velocity_up, obstacles, obstacles_passed, distance_traveled,
          pc, lag, elapsed, fitness, drawn, since, swam, branch, returned>>

----------------------------------------------------------------------------
(* Program constants *)

WindowHeight == 640
Gravity == 8
PlayerX == 250
PlayerStartY == 200
PlayerFloorY == 570
SwimVelocity == 30
PlayerWidth == 70
PlayerHeight == 70
ObstacleStartX == 1200
ObstacleSpeed == 5
GapSize == 170
ObstacleWidth == 80
BottomExtra == 200
ScreenLeft == 9
TickMs == 16
SpawnRateMs == 1000

NOT_STARTED == "NOT_STARTED"
RUNNING == "RUNNING"
PAUSED == "PAUSED"
OVER == "OVER"
GameState == {RUNNING, OVER, PAUSED, NOT_STARTED}

\* The values of randint(-100, 100).
AllOffsets == -100 .. 100

\* get_next_obstacle's None, as an obstacle no Obstacle() constructs.
None == [id |-> 0, x |-> 0, offset |-> 0]

(* Model bounds *)

\* The offsets drawn where several obstacles are followed together.
Offsets == {0, 100}
\* The offsets drawn where one obstacle is followed to the end of the game:
\* every tenth value of randint(-100, 100), both ends included.
DriftOffsets == {10 * k : k \in -10 .. 10}
\* The wall-clock time between two samples of time() in start(), in ms:
\* a frame faster than a tick, a frame of one tick, and a stall.
Deltas == {8, 16, 3904}
\* start() is followed for this much wall-clock time.
MaxTime == 3904
\* Key presses arrive in the frames sampled up to this time.
InputHorizon == 24
\* Direct calls: add_obstacle() and swim() are called before this many ticks.
CallHorizon == 2
\* Direct calls: at most this many add_obstacle() calls.
MaxSpawned == 2
\* Direct calls: update() is followed for this many ticks.
MaxTicks == 262
\* Queries on any queue: the longest queue, and the x its obstacles have: off
\* the screen (right edge 5, 9), just on it (10), behind the player, level
\* with the player's centre (245 + 40 = 250 + 35), and ahead.
MaxQueue == 3
QueueXs == {-75, -71, -70, 200, 245, 250, 400, 1200}

----------------------------------------------------------------------------
(* pygame.Rect *)

\* int() of a float held in sixths: truncation towards zero.
Trunc(v) == IF v >= 0 THEN v \div 6 ELSE -((-v) \div 6)

\* The values int(self.y) can have for the float whose exact value is v sixths.
Tops(v) ==
    IF v % 6 # 0 \/ v = 0 THEN {Trunc(v)}
    ELSE IF v > 0 THEN {Trunc(v) - 1, Trunc(v)}
    ELSE {Trunc(v), Trunc(v) + 1}

Rect(x, t, w, h) == [left |-> x, top |-> t, width |-> w, height |-> h]
Right(r) == r.left + r.width
Bottom(r) == r.top + r.height
CenterX(r) == r.left + (r.width \div 2)
CenterY(r) == r.top + (r.height \div 2)

\* Rect.colliderect: the rectangles overlap in more than an edge.
CollideRect(a, b) ==
    /\ a.left < Right(b)
    /\ a.top < Bottom(b)
    /\ Right(a) > b.left
    /\ Bottom(a) > b.top

----------------------------------------------------------------------------
(* Player *)

\* GameObject.get_hitbox for the player, t being int(self.y).
PlayerHitbox(t) == Rect(PlayerX, t, PlayerWidth, PlayerHeight)

\* Mutant of ClampBranch: the floor test reads the hitbox's top, not its bottom.
ClampBranchFloorByTop(p) ==
    IF PlayerHitbox(p.top).top > WindowHeight THEN "floor"
    ELSE IF PlayerHitbox(p.top).top < 0 THEN "ceiling"
    ELSE "free"

\* Player.update: which of the if / elif branches the player p takes.
ClampBranch(p) ==
    IF Bottom(PlayerHitbox(p.top)) > WindowHeight THEN "floor"
    ELSE IF PlayerHitbox(p.top).top < 0 THEN "ceiling"
    ELSE "free"

\* Mutant of PlayerUpdate: the ceiling branch leaves velocity_up as it is.
PlayerUpdateKeepsVelocity(p) ==
    LET c == IF ClampBranch(p) = "floor"
                THEN [y |-> 6 * PlayerFloorY, velocity_up |-> p.velocity_up]
             ELSE IF ClampBranch(p) = "ceiling"
                THEN [y |-> 0, velocity_up |-> p.velocity_up]
             ELSE p
        y1 == c.y - 3 * c.velocity_up
        v1 == IF c.velocity_up > 0 THEN c.velocity_up - (Gravity \div 4)
              ELSE c.velocity_up
    IN  [y |-> y1 + 2 * Gravity, velocity_up |-> v1]

\* Mutant of PlayerUpdate: velocity_up decays by gravity / 2, which does not
\* divide the impulse of swim().
PlayerUpdateDecayHalf(p) ==
    LET c == IF ClampBranch(p) = "floor"
                THEN [y |-> 6 * PlayerFloorY, velocity_up |-> p.velocity_up]
             ELSE IF ClampBranch(p) = "ceiling"
                THEN [y |-> 0, velocity_up |-> 0]
             ELSE p
        y1 == c.y - 3 * c.velocity_up
        v1 == IF c.velocity_up > 0 THEN c.velocity_up - (Gravity \div 2)
              ELSE c.velocity_up
    IN  [y |-> y1 + 2 * Gravity, velocity_up |-> v1]

\* Mutant of PlayerUpdate: velocity_up decays before it moves the player.
PlayerUpdateDecayFirst(p) ==
    LET c == IF ClampBranch(p) = "floor"
                THEN [y |-> 6 * PlayerFloorY, velocity_up |-> p.velocity_up]
             ELSE IF ClampBranch(p) = "ceiling"
                THEN [y |-> 0, velocity_up |-> 0]
             ELSE p
        v1 == IF c.velocity_up > 0 THEN c.velocity_up - (Gravity \div 4)
              ELSE c.velocity_up
        y1 == c.y - 3 * v1
    IN  [y |-> y1 + 2 * Gravity, velocity_up |-> v1]

\* Player.update: y and velocity_up of the player p = [y, top, velocity_up]
\* after one tick.
PlayerUpdate(p) ==
    LET c == IF ClampBranch(p) = "floor"
                THEN [y |-> 6 * PlayerFloorY, velocity_up |-> p.velocity_up]
             ELSE IF ClampBranch(p) = "ceiling"
                THEN [y |-> 0, velocity_up |-> 0]
             ELSE p
        y1 == c.y - 3 * c.velocity_up
        v1 == IF c.velocity_up > 0 THEN c.velocity_up - (Gravity \div 4)
              ELSE c.velocity_up
    IN  [y |-> y1 + 2 * Gravity, velocity_up |-> v1]

----------------------------------------------------------------------------
(* Obstacle *)

\* Obstacle.__init__: the n-th obstacle constructed, with the offset drawn.
NewObstacle(n, off) == [id |-> n, x |-> ObstacleStartX, offset |-> off]

\* Obstacle._init_surface: the heights of the two blocks.
TopHeight(o) == (WindowHeight \div 2) - (GapSize \div 2) + o.offset
BotHeight(o) == (WindowHeight \div 2) + BottomExtra

\* Mutant of BotRect: bot_y leaves the offset out.
BotRectNoOffset(o) ==
    Rect(o.x, (WindowHeight \div 2) + (GapSize \div 2), ObstacleWidth, BotHeight(o))

\* Obstacle.get_hitbox: (top, bot), from the current x.
TopRect(o) == Rect(o.x, 0, ObstacleWidth, TopHeight(o))
BotRect(o) ==
    Rect(o.x, (WindowHeight \div 2) + (GapSize \div 2) + o.offset,
         ObstacleWidth, BotHeight(o))

\* Obstacle.update
ObstacleUpdate(o) == [o EXCEPT !.x = @ - ObstacleSpeed]

\* Mutant of DetectCollision: the bottom rectangle is not tested.
DetectCollisionTopOnly(o, t) == CollideRect(TopRect(o), PlayerHitbox(t))

\* Obstacle.detect_collision, against the player whose hitbox top is t.
DetectCollision(o, t) ==
    \/ CollideRect(TopRect(o), PlayerHitbox(t))
    \/ CollideRect(BotRect(o), PlayerHitbox(t))

----------------------------------------------------------------------------
(* Game *)

\* Game.get_on_screen_obstacles on the deque q: the new deque and the counter.
\* Mutant of OnScreen: the test reads the obstacle's left edge.
OnScreenLeftEdge(o) == o.x > ScreenLeft

\* Game.get_on_screen_obstacles: the condition of the filter.
OnScreen(o) == o.x + ObstacleWidth > ScreenLeft

\* Mutant of GetOnScreenObstacles: the dropped obstacles are counted, and the
\* deque is returned as it was.
GetOnScreenObstaclesKeepsAll(q, passed) ==
    LET kept == SelectSeq(q, OnScreen)
    IN  [obstacles |-> q, obstacles_passed |-> passed + (Len(q) - Len(kept))]

GetOnScreenObstacles(q, passed) ==
    LET kept == SelectSeq(q, OnScreen)
    IN  [obstacles |-> kept, obstacles_passed |-> passed + (Len(q) - Len(kept))]

\* The body of the for loop of Game.update, from the i-th element of the deque
\* the loop iterates (objs: the deque self.obstacles named when the loop
\* began, which the rebinding of self.obstacles inside the loop leaves whole).
\* q is self.obstacles; its elements are the same objects as those of objs.
\* t is the top of the hitbox of the player, already updated.
\* Mutant of StateAfterTest: an obstacle that does not collide sets RUNNING.
StateAfterTestResets(st, hit) == IF hit THEN OVER ELSE RUNNING

\* Mutant of StateAfterTest: the test's result is not read
\* (if obstacle.detect_collision: with the call left out).
StateAfterTestAlways(st, hit) == OVER

\* Game.update: self.state after the collision test of one obstacle.
StateAfterTest(st, hit) == IF hit THEN OVER ELSE st

\* Mutant of UpdateLoop: the loop is left at the first collision (a break
\* after self.state = GameState.OVER).
RECURSIVE UpdateLoopBreaks(_, _, _, _, _, _)
UpdateLoopBreaks(i, objs, q, passed, st, t) ==
    IF i > Len(objs)
    THEN [objs |-> objs, obstacles |-> q, obstacles_passed |-> passed, state |-> st]
    ELSE LET o == ObstacleUpdate(objs[i])
             objs1 == [objs EXCEPT ![i] = o]
             q1 == [k \in DOMAIN q |-> IF q[k].id = o.id THEN o ELSE q[k]]
         IN  IF DetectCollision(o, t)
             THEN [objs |-> objs1, obstacles |-> q1, obstacles_passed |-> passed,
                   state |-> OVER]
             ELSE LET f == GetOnScreenObstacles(q1, passed)
                  IN  UpdateLoopBreaks(i + 1, objs1, f.obstacles,
                                       f.obstacles_passed, st, t)

\* Mutant of UpdateLoop: the loop iterates the deque self.obstacles names at
\* each step, so the obstacle after a dropped one is skipped.
RECURSIVE UpdateLoopOverRebound(_, _, _, _, _, _)
UpdateLoopOverRebound(i, objs, q, passed, st, t) ==
    IF i > Len(q)
    THEN [objs |-> objs, obstacles |-> q, obstacles_passed |-> passed, state |-> st]
    ELSE LET o == ObstacleUpdate(q[i])
             objs1 == [k \in DOMAIN objs |-> IF objs[k].id = o.id THEN o ELSE objs[k]]
             q1 == [q EXCEPT ![i] = o]
             st1 == StateAfterTest(st, DetectCollision(o, t))
             f == GetOnScreenObstacles(q1, passed)
         IN  UpdateLoopOverRebound(i + 1, objs1, f.obstacles, f.obstacles_passed, st1, t)

RECURSIVE UpdateLoop(_, _, _, _, _, _)
UpdateLoop(i, objs, q, passed, st, t) ==
    IF i > Len(objs)
    THEN [objs |-> objs, obstacles |-> q, obstacles_passed |-> passed, state |-> st]
    ELSE LET o == ObstacleUpdate(objs[i])
             objs1 == [objs EXCEPT ![i] = o]
             q1 == [k \in DOMAIN q |-> IF q[k].id = o.id THEN o ELSE q[k]]
             st1 == StateAfterTest(st, DetectCollision(o, t))
             f == GetOnScreenObstacles(q1, passed)
         IN  UpdateLoop(i + 1, objs1, f.obstacles, f.obstacles_passed, st1, t)

\* Game.update on the game g (a record of the fields it reads and writes),
\* t being the value int(self.y) has once the player is updated.
GameUpdate(g, t) ==
    LET p == PlayerUpdate([y |-> g.y, top |-> g.top, velocity_up |-> g.velocity_up])
        r == UpdateLoop(1, g.obstacles, g.obstacles, g.obstacles_passed,
                        g.state, t)
    IN  [state |-> r.state, y |-> p.y, top |-> t, velocity_up |-> p.velocity_up,
         obstacles |-> r.obstacles, obstacles_passed |-> r.obstacles_passed,
         distance_traveled |-> g.distance_traveled + 1]

\* The fields of the game as a record.
Game ==
    [state |-> state, y |-> y, top |-> top, velocity_up |-> velocity_up,
     obstacles |-> obstacles, obstacles_passed |-> obstacles_passed,
     distance_traveled |-> distance_traveled]

\* Game.get_next_obstacle: the loop over the deque q from its i-th element,
\* with closest_obstacle and closest_pos as they stand.
\* Mutant of Ahead: an obstacle level with the player counts as ahead.
AheadOrLevel(obstacle_pos, player_pos) == obstacle_pos >= player_pos

\* Mutant of Closer: the comparison is turned round.
CloserTurned(closest_pos, obstacle_pos) == closest_pos < obstacle_pos

\* Game.get_next_obstacle: the two comparisons of the loop.
Ahead(obstacle_pos, player_pos) == obstacle_pos > player_pos
Closer(closest_pos, obstacle_pos) == closest_pos > obstacle_pos

RECURSIVE NextObstacleLoop(_, _, _, _, _)
NextObstacleLoop(i, q, closest, closest_pos, player_pos) ==
    IF i > Len(q) THEN closest
    ELSE LET obstacle_pos == CenterX(TopRect(q[i]))
         IN  IF Ahead(obstacle_pos, player_pos)
             THEN IF closest = None
                  THEN NextObstacleLoop(i + 1, q, q[i], obstacle_pos, player_pos)
                  ELSE IF Closer(closest_pos, obstacle_pos)
                       THEN NextObstacleLoop(i + 1, q, q[i], closest_pos, player_pos)
                       ELSE NextObstacleLoop(i + 1, q, closest, closest_pos, player_pos)
             ELSE NextObstacleLoop(i + 1, q, closest, closest_pos, player_pos)

GetNextObstacle(q, t) ==
    NextObstacleLoop(1, q, None, 0, CenterX(PlayerHitbox(t)))

\* Game.distance_to_obstacle, Game.height_to_obstacle
DistanceToObstacle(o, t) == CenterX(TopRect(o)) - CenterX(PlayerHitbox(t))
HeightToObstacle(o, t) ==
    (Bottom(TopRect(o)) + (GapSize \div 2)) - CenterY(PlayerHitbox(t))

Abs(n) == IF n < 0 THEN -n ELSE n

\* Game.calculate_fitness, given the obstacle get_next_obstacle returned.
CalculateFitness(o, t, dist) ==
    dist - (DistanceToObstacle(o, t) + Abs(HeightToObstacle(o, t)))

----------------------------------------------------------------------------
(* Events *)

QuitEvent == [type |-> "QUIT", key |-> "-"]
SpawnEvent == [type |-> "OBSTACLE_SPAWN_EVENT", key |-> "-"]
KeyDown(k) == [type |-> "KEYDOWN", key |-> k]

\* Game.process_input: the loop over the events of event.get(), from the i-th.
\* in: [obstacles, velocity_up, drawn, swam, branch, exited]; draws: the values
\* randint returns to the obstacles constructed, in order.
RECURSIVE ProcessInputLoop(_, _, _, _)
ProcessInputLoop(i, events, draws, in) ==
    IF i > Len(events) \/ in.exited THEN in
    ELSE LET e == events[i]
             add == \/ e.type = "OBSTACLE_SPAWN_EVENT"
                    \/ e.type = "KEYDOWN" /\ e.key = "K_o"
         IN  IF e.type = "QUIT" \/ (e.type = "KEYDOWN" /\ e.key = "K_q")
             THEN [in EXCEPT !.exited = TRUE]
             ELSE IF add
             THEN ProcessInputLoop(i + 1, events, Tail(draws),
                     [in EXCEPT !.obstacles =
                                   Append(@, NewObstacle(Len(in.drawn) + 1, Head(draws))),
                                !.drawn = Append(@, Head(draws))])
             ELSE IF e.type = "KEYDOWN" /\ e.key = "K_SPACE"
             THEN ProcessInputLoop(i + 1, events, draws,
                     [in EXCEPT !.velocity_up = SwimVelocity, !.swam = TRUE,
                                !.branch = "swim"])
             ELSE ProcessInputLoop(i + 1, events, draws, in)

\* The number of obstacles the events construct if none of them quits.
RECURSIVE Adds(_)
Adds(events) ==
    IF events = <<>> THEN 0
    ELSE (IF \/ Head(events).type = "OBSTACLE_SPAWN_EVENT"
             \/ Head(events).type = "KEYDOWN" /\ Head(events).key = "K_o"
          THEN 1 ELSE 0) + Adds(Tail(events))

\* What the user does during one frame.
UserInputs ==
    {<<>>, <<KeyDown("K_SPACE")>>, <<KeyDown("K_o")>>, <<KeyDown("K_q")>>,
     <<QuitEvent>>, <<KeyDown("K_other")>>}

\* The events the timer init_game starts has posted between two polls, delta
\* ms apart, the first at time t after init_game.
TimerEvents(t, delta) ==
    [k \in 1 .. ((t + delta) \div SpawnRateMs) - (t \div SpawnRateMs) |-> SpawnEvent]

----------------------------------------------------------------------------
(* The state after Game() *)

Init ==
    /\ state = NOT_STARTED
    /\ y = 6 * PlayerStartY
    /\ top = PlayerStartY
    /\ velocity_up = 0
    /\ obstacles = <<>>
    /\ obstacles_passed = 0
    /\ distance_traveled = 0
    /\ pc = "start"
    /\ lag = 0
    /\ elapsed = 0
    /\ fitness = <<>>
    /\ drawn = <<>>
    /\ since = 0
    /\ swam = FALSE
    /\ branch = "init"
    /\ returned = None

loopVars == <<pc, lag, elapsed, fitness>>
histVars == <<drawn, since, swam, branch, returned>>

\* The number of Obstacle() constructions so far.
spawned == Len(drawn)
gameVars == <<state, y, top, velocity_up, obstacles, obstacles_passed,
              distance_traveled>>

\* Game.init_game, the first statement of start().
InitGame ==
    /\ pc = "start"
    /\ state' = RUNNING
    /\ pc' = "loop"
    /\ UNCHANGED <<y, top, velocity_up, obstacles, obstacles_passed,
                   distance_traveled, lag, elapsed, fitness, histVars>>

\* The variables after Game.update.
ApplyUpdate ==
    \E t \in Tops(PlayerUpdate([y |-> y, top |-> top,
                                velocity_up |-> velocity_up]).y) :
      LET g == GameUpdate(Game, t)
      IN
        /\ state' = g.state
        /\ y' = g.y
        /\ top' = g.top
        /\ velocity_up' = g.velocity_up
        /\ obstacles' = g.obstacles
        /\ obstacles_passed' = g.obstacles_passed
        /\ distance_traveled' = g.distance_traveled
        /\ since' = since + 1
        /\ branch' = ClampBranch([y |-> y, top |-> top, velocity_up |-> velocity_up])
        /\ UNCHANGED <<drawn, swam, returned>>

----------------------------------------------------------------------------
(* Game.start(): the main loop *)

\* One pass of the while loop up to the inner loop: the clock is sampled, lag
\* grows by the time since the last sample, and process_input handles the
\* events posted since: the timer's, then the user's.
Frame ==
    /\ pc = "loop"
    /\ state = RUNNING
    /\ \E delta \in Deltas, input \in UserInputs :
         LET events == TimerEvents(elapsed, delta) \o input
         IN  /\ elapsed + delta <= MaxTime
             /\ elapsed + delta > InputHorizon => input = <<>>
             /\ \E draws \in [1 .. Adds(events) -> Offsets] :
                  LET r == ProcessInputLoop(1, events, draws,
                              [obstacles |-> obstacles, velocity_up |-> velocity_up,
                               drawn |-> drawn, swam |-> swam, branch |-> branch,
                               exited |-> FALSE])
                  IN  /\ obstacles' = r.obstacles
                      /\ velocity_up' = r.velocity_up
                      /\ drawn' = r.drawn
                      /\ since' = IF r.drawn # drawn THEN 0 ELSE since
                      /\ swam' = r.swam
                      /\ branch' = r.branch
                      /\ pc' = IF r.exited THEN "exited" ELSE "ticks"
             /\ elapsed' = elapsed + delta
             /\ lag' = lag + delta
    /\ UNCHANGED <<state, y, top, obstacles_passed, distance_traveled, fitness,
                   returned>>

\* Mutant of TickDue: the inner loop's test is lag > SECONDS_PER_FRAME.
TickDueStrict(l) == l > TickMs

\* start(): the test of the inner loop, while lag >= SECONDS_PER_FRAME.
TickDue(l) == l >= TickMs

\* One iteration of the inner loop.
Tick ==
    /\ pc = "ticks"
    /\ TickDue(lag)
    /\ ApplyUpdate
    /\ lag' = lag - TickMs
    /\ UNCHANGED <<pc, elapsed, fitness>>

\* The inner loop ends; render() changes nothing of the game.
Render ==
    /\ pc = "ticks"
    /\ ~TickDue(lag)
    /\ pc' = "loop"
    /\ UNCHANGED <<gameVars, lag, elapsed, fitness, histVars>>

\* The while loop ends; get_score() is printed.
ExitLoop ==
    /\ pc = "loop"
    /\ state # RUNNING
    /\ pc' = "report"
    /\ UNCHANGED <<gameVars, lag, elapsed, fitness, histVars>>

\* print("Fitness: ", self.calculate_fitness()): with no next obstacle,
\* distance_to_obstacle(None) raises and start() ends in the error.
Report ==
    /\ pc = "report"
    /\ LET o == GetNextObstacle(obstacles, top)
       IN  IF o = None
           THEN /\ pc' = "error"
                /\ fitness' = fitness
           ELSE /\ pc' = "done"
                /\ fitness' = <<CalculateFitness(o, top, distance_traveled)>>
    /\ UNCHANGED <<gameVars, lag, elapsed, histVars>>

Next == InitGame \/ Frame \/ Tick \/ Render \/ ExitLoop \/ Report

Spec == Init /\ [][Next]_vars

----------------------------------------------------------------------------
(* The player alone: any sequence of swim() and Player.update() *)

\* Player.swim
Swim ==
    /\ velocity_up' = SwimVelocity
    /\ swam' = TRUE
    /\ branch' = "swim"
    /\ UNCHANGED <<state, y, top, obstacles, obstacles_passed, distance_traveled,
                   loopVars, drawn, since, returned>>

\* Player.update
PlayerTick ==
    /\ LET p == PlayerUpdate([y |-> y, top |-> top, velocity_up |-> velocity_up])
       IN  /\ y' = p.y
           /\ top' \in Tops(p.y)
           /\ velocity_up' = p.velocity_up
    /\ branch' = ClampBranch([y |-> y, top |-> top, velocity_up |-> velocity_up])
    /\ UNCHANGED <<state, obstacles, obstacles_passed, distance_traveled,
                   loopVars, drawn, since, swam, returned>>

NextPlayer == Swim \/ PlayerTick

SpecPlayer == Init /\ [][NextPlayer]_vars

----------------------------------------------------------------------------
(* The game's methods called directly, in any order, after init_game() *)

\* Mutant of AddObstacle: the obstacle is put at the front (appendleft).
AddObstacleLeft ==
    /\ pc = "loop"
    /\ distance_traveled < CallHorizon
    /\ spawned < MaxSpawned
    /\ \E off \in Offsets :
         /\ obstacles' = <<NewObstacle(spawned + 1, off)>> \o obstacles
         /\ drawn' = Append(drawn, off)
    /\ since' = 0
    /\ UNCHANGED <<state, y, top, velocity_up, obstacles_passed, distance_traveled,
                   loopVars, swam, branch, returned>>

\* Game.add_obstacle
AddObstacle ==
    /\ pc = "loop"
    /\ distance_traveled < CallHorizon
    /\ spawned < MaxSpawned
    /\ \E off \in Offsets :
         /\ obstacles' = Append(obstacles, NewObstacle(spawned + 1, off))
         /\ drawn' = Append(drawn, off)
    /\ since' = 0
    /\ UNCHANGED <<state, y, top, velocity_up, obstacles_passed, distance_traveled,
                   loopVars, swam, branch, returned>>

\* Player.swim, called while the calls are being issued.
CallSwim ==
    /\ pc = "loop"
    /\ distance_traveled < CallHorizon
    /\ Swim

\* Game.update
Update ==
    /\ pc = "loop"
    /\ distance_traveled < MaxTicks
    /\ ApplyUpdate
    /\ UNCHANGED loopVars

NextCalls == InitGame \/ AddObstacle \/ CallSwim \/ Update

SpecCalls == Init /\ [][NextCalls]_vars

----------------------------------------------------------------------------
(* The game left alone: nobody swims, one obstacle comes, ticks keep running *)

\* Game.add_obstacle, for the first obstacle.
AddFirstObstacle ==
    /\ pc = "loop"
    /\ distance_traveled < CallHorizon
    /\ spawned = 0
    /\ \E off \in DriftOffsets :
         /\ obstacles' = Append(obstacles, NewObstacle(1, off))
         /\ drawn' = Append(drawn, off)
    /\ since' = 0
    /\ UNCHANGED <<state, y, top, velocity_up, obstacles_passed, distance_traveled,
                   loopVars, swam, branch, returned>>

NextDrift == InitGame \/ AddFirstObstacle \/ Update

\* update() keeps being called: the inner loop of start() runs a tick for every
\* 16 ms of wall-clock time.
SpecDrift == Init /\ [][NextDrift]_vars /\ WF_vars(Update)

----------------------------------------------------------------------------
(* The queries of Game called on any queue, in play's order or not *)

\* The deques of at most MaxQueue obstacles, each anywhere.
ArbitraryQueues ==
    UNION {{[i \in 1 .. n |-> [id |-> i, x |-> xs[i], offset |-> 0]] :
                xs \in [1 .. n -> QueueXs]} : n \in 0 .. MaxQueue}

\* A running game whose deque is any of them.
InitQueues ==
    /\ state = RUNNING
    /\ y = 6 * PlayerStartY
    /\ top = PlayerStartY
    /\ velocity_up = 0
    /\ obstacles \in ArbitraryQueues
    /\ obstacles_passed = 0
    /\ distance_traveled = 0
    /\ pc = "loop"
    /\ lag = 0
    /\ elapsed = 0
    /\ fitness = <<>>
    /\ drawn = <<>>
    /\ since = 0
    /\ swam = FALSE
    /\ branch = "init"
    /\ returned = None

\* self.obstacles = self.get_on_screen_obstacles()
CallGetOnScreenObstacles ==
    /\ LET f == GetOnScreenObstacles(obstacles, obstacles_passed)
       IN  /\ obstacles' = f.obstacles
           /\ obstacles_passed' = f.obstacles_passed
    /\ branch' = "get_on_screen_obstacles"
    /\ UNCHANGED <<state, y, top, velocity_up, distance_traveled, loopVars,
                   drawn, since, swam, returned>>

\* self.get_next_obstacle()
CallGetNextObstacle ==
    /\ returned' = GetNextObstacle(obstacles, top)
    /\ branch' = "get_next_obstacle"
    /\ UNCHANGED <<gameVars, loopVars, drawn, since, swam>>

NextQueues == CallGetOnScreenObstacles \/ CallGetNextObstacle

SpecQueues == InitQueues /\ [][NextQueues]_vars

----------------------------------------------------------------------------
(* One obstacle, of any offset, from its construction to its removal *)

\* A running game with one obstacle just constructed.
InitObstacle ==
    /\ state = RUNNING
    /\ y = 6 * PlayerStartY
    /\ top = PlayerStartY
    /\ velocity_up = 0
    /\ \E off \in AllOffsets :
         /\ obstacles = <<NewObstacle(1, off)>>
         /\ drawn = <<off>>
    /\ obstacles_passed = 0
    /\ distance_traveled = 0
    /\ pc = "loop"
    /\ lag = 0
    /\ elapsed = 0
    /\ fitness = <<>>
    /\ since = 0
    /\ swam = FALSE
    /\ branch = "init"
    /\ returned = None

\* obstacle.update(), for as long as the filter keeps the obstacle queued.
ObstacleTick ==
    /\ OnScreen(obstacles[1])
    /\ obstacles' = <<ObstacleUpdate(obstacles[1])>>
    /\ since' = since + 1
    /\ UNCHANGED <<state, y, top, velocity_up, obstacles_passed, distance_traveled,
                   loopVars, drawn, swam, branch, returned>>

SpecObstacle == InitObstacle /\ [][ObstacleTick]_vars

----------------------------------------------------------------------------
(* Properties *)

\* The centres get_next_obstacle compares.
ObstacleCenter(o) == CenterX(TopRect(o))
PlayerCenter == CenterX(PlayerHitbox(top))

\* The queued obstacles whose centre is strictly ahead of the player's.
AheadSet == {i \in DOMAIN obstacles : ObstacleCenter(obstacles[i]) > PlayerCenter}

\* C1: when the main loop of start() has ended and calculate_fitness() is
\* about to be called, get_next_obstacle() returns an obstacle, not None.
C1_NextObstacleAtExit ==
    pc = "report" => GetNextObstacle(obstacles, top) # None

\* What one step of start() may do to the state.
C2_Step ==
    /\ state' # PAUSED
    /\ state = OVER => state' = OVER
    /\ state' # state =>
          \/ state = NOT_STARTED /\ state' = RUNNING /\ pc = "start"
          \/ /\ state = RUNNING /\ state' = OVER /\ pc = "ticks"
             /\ distance_traveled' = distance_traveled + 1

\* C2: in a run of start() the state only goes NOT_STARTED -> RUNNING, in
\* init_game, and RUNNING -> OVER, in an update() tick; it is never PAUSED
\* and nothing changes it once it is OVER.
C2_StateTransitions == [][C2_Step]_vars

\* C2's case: the run has ended with the state OVER and has printed its report.
C2_Witness == state = OVER /\ pc = "done"

\* A step that ends the game is a tick that leaves the player inside an
\* obstacle; a step with an empty queue leaves the game running.
C3_Step ==
    /\ (state' = OVER /\ state # OVER) =>
          /\ distance_traveled' = distance_traveled + 1
          /\ \E i \in DOMAIN obstacles :
                LET o == [obstacles[i] EXCEPT !.x = @ - 5]
                IN  \/ CollideRect(TopRect(o), PlayerHitbox(top'))
                    \/ CollideRect(BotRect(o), PlayerHitbox(top'))
    /\ (state = RUNNING /\ obstacles = <<>>) => state' = RUNNING

C4_PassedPlusQueued ==
    /\ obstacles_passed + Len(obstacles) = spawned
    /\ \A i, j \in DOMAIN obstacles : obstacles[i].id = obstacles[j].id => i = j

\* C4's case: one obstacle has been dropped by the filter while another, later
\* in the loop of the same ticks, is still queued.
C4_Witness == obstacles_passed = 1 /\ Len(obstacles) = 1

\* C5: when some queued obstacle is ahead of the player, get_next_obstacle()
\* returns one of those, of the least centre among them.
C5_ClosestAhead ==
    AheadSet # {} =>
        LET n == GetNextObstacle(obstacles, top)
        IN  /\ \E i \in AheadSet : obstacles[i] = n
            /\ \A j \in AheadSet : ObstacleCenter(n) <= ObstacleCenter(obstacles[j])

\* C5's case: two obstacles ahead of the player, at different distances.
C5_Witness ==
    \E i, j \in AheadSet : ObstacleCenter(obstacles[i]) < ObstacleCenter(obstacles[j])

\* C6: get_next_obstacle() returns None exactly when no queued obstacle is
\* strictly ahead of the player.
C6_NoneIffNothingAhead ==
    (GetNextObstacle(obstacles, top) = None) <=> (AheadSet = {})

\* C6's case: an obstacle is queued level with the player, none is ahead, and
\* None is returned.
C6_Witness ==
    /\ \E i \in DOMAIN obstacles : ObstacleCenter(obstacles[i]) = PlayerCenter
    /\ AheadSet = {}
    /\ GetNextObstacle(obstacles, top) = None

\* C7 as stated: a single obstacle, of offset 0, is gone and counted after 238
\* update() calls.
C7_RemovedAfter238 ==
    (drawn = <<0>> /\ since = 238) => (obstacles = <<>> /\ obstacles_passed = 1)

\* C7, amended: a single obstacle, of offset 0, is queued and not counted
\* through its first 254 update() calls, and gone and counted from the 255th.
C7_RemovedAfter255 ==
    drawn = <<0>> =>
        IF since >= 255 THEN obstacles = <<>> /\ obstacles_passed = 1
        ELSE Len(obstacles) = 1 /\ obstacles_passed = 0

\* C7's case: the 255th update() after the only spawn has run.
C7_Witness ==
    drawn = <<0>> /\ since = 255 /\ obstacles = <<>> /\ obstacles_passed = 1

\* C8: y <= 571 + gravity / 3 (in sixths), whatever swim() and update() calls
\* came before.
C8_BottomBounded == y <= 6 * 571 + 2 * Gravity

\* C8's case: an update has left the hitbox's bottom below the window's.
C8_Witness ==
    /\ branch \in {"free", "floor"}
    /\ top + PlayerHeight > WindowHeight

\* An update (the steps that change y) from above the window's top.
C9_Step ==
    (y' # y /\ top < 0 /\ top + PlayerHeight <= WindowHeight) =>
        (velocity_up' = 0 /\ y' = 16 /\ y' >= 0)

\* C9: a Player.update() that starts with the hitbox's top above the window's
\* ends with velocity_up = 0 and y = gravity / 3, whatever velocity_up was.
C9_CeilingClamp == [][C9_Step]_vars

\* C9's case: the update that found the player above the window has run.
C9_Witness == branch = "ceiling" /\ velocity_up = 0 /\ swam

\* An update (the steps that change y) from inside the window.
C10_Step ==
    (y' # y /\ top >= 0 /\ top + PlayerHeight <= WindowHeight) =>
        /\ y' = y - 3 * velocity_up + 16
        /\ velocity_up' = IF velocity_up > 0 THEN velocity_up - 2 ELSE velocity_up
        /\ velocity_up = 0 => y' = y + 16
        /\ velocity_up = 30 => (velocity_up' = 28 /\ y' = y - 90 + 16)

\* C10: a Player.update() that starts with the hitbox inside the window moves
\* y by gravity / 3 - velocity_up / 2, with the velocity it started with, and
\* takes gravity / 4 off a positive velocity_up: at rest y grows by 8/3, and
\* after swim() velocity_up becomes 28 and y moves by 8/3 - 15.
C10_FreeUpdate == [][C10_Step]_vars

\* C10's case: swim() and one update() inside the window: velocity_up is 28.
C10_Witness == branch = "free" /\ velocity_up = 28

\* C11: at the end of every frame of the main loop (the inner loop has ended
\* and render() has run) the number of update() ticks since start is
\* floor(elapsed / tick), elapsed being the whole time sampled so far, however
\* it was divided into frames; equivalently 0 <= lag < tick there.
C11_TicksFollowTime ==
    pc \in {"loop", "report", "done", "error"} =>
        /\ distance_traveled = elapsed \div TickMs
        /\ 0 <= lag /\ lag < TickMs
        /\ lag = elapsed - TickMs * distance_traveled

\* C11's case: a frame that ran no tick (8 ms) and frames that ran one have
\* ended, with half a tick of lag left over.
C11_Witness ==
    pc = "loop" /\ elapsed = 40 /\ distance_traveled = 2 /\ lag = 8

\* C12: get_on_screen_obstacles() applied to its own result returns the same
\* queue, obstacle for obstacle, and leaves obstacles_passed as it is.
C12_FilterIdempotent ==
    branch = "get_on_screen_obstacles" =>
        GetOnScreenObstacles(obstacles, obstacles_passed) =
            [obstacles |-> obstacles, obstacles_passed |-> obstacles_passed]

\* C12's case: the first application dropped one obstacle out of three, the
\* one between the two it kept.
C12_Witness ==
    /\ branch = "get_on_screen_obstacles"
    /\ obstacles_passed = 1
    /\ Len(obstacles) = 2
    /\ obstacles[1].id = 1 /\ obstacles[2].id = 3

\* C13: for every offset in [-100, 100] and at every x the obstacle reaches,
\* its two hitbox rectangles do not overlap: the bottom rectangle's top edge
\* is gap_size = 170 below the top rectangle's bottom edge.
C13_BlocksApart ==
    \A i \in DOMAIN obstacles :
        LET o == obstacles[i]
        IN  /\ ~CollideRect(TopRect(o), BotRect(o))
            /\ BotRect(o).top = Bottom(TopRect(o)) + 170
            /\ BotRect(o).top - Bottom(TopRect(o)) = GapSize

\* C13's case: the obstacle of the least offset at the last x it reaches.
C13_Witness ==
    /\ Len(obstacles) = 1
    /\ obstacles[1].offset = -100
    /\ obstacles[1].x = -75
    /\ Bottom(TopRect(obstacles[1])) = 135

\* What a tick does to the obstacles queued when it starts: the update loop
\* leaves each of them, dropped or not, 5 to the left of where it was, and each
\* obstacle still queued is one of them, 5 to the left.
C14_Step ==
    distance_traveled' = distance_traveled + 1 =>
        /\ UpdateLoop(1, obstacles, obstacles, obstacles_passed, state, top').objs
              = [i \in DOMAIN obstacles |-> [obstacles[i] EXCEPT !.x = @ - 5]]
        /\ \A k \in DOMAIN obstacles' :
              \E i \in DOMAIN obstacles :
                 obstacles'[k] = [obstacles[i] EXCEPT !.x = @ - 5]
        /\ \A i \in DOMAIN obstacles :
              obstacles[i].x - 5 + ObstacleWidth > ScreenLeft =>
                 \E k \in DOMAIN obstacles' :
                    obstacles'[k] = [obstacles[i] EXCEPT !.x = @ - 5]

\* C14: in each update() tick every obstacle queued at the start of the tick
\* moves 5 to the left, once, also those that come after a colliding obstacle
\* and those that come after an obstacle the filter drops inside the loop.
C14_EachObstacleMovesOnce == [][C14_Step]_vars

\* C14's case: the tick that dropped the first obstacle has moved the second,
\* which followed it in the loop: it is 254 moves from 1200.
C14_Witness ==
    /\ obstacles_passed = 1
    /\ Len(obstacles) = 1
    /\ obstacles[1].id = 2
    /\ since = 254
    /\ obstacles[1].x = ObstacleStartX - 5 * 254

\* The variant of Game.update(): every obstacle is updated and tested, and the
\* on-screen filter is applied once, after the loop.
RECURSIVE FilterOnceLoop(_, _, _, _)
FilterOnceLoop(i, objs, st, t) ==
    IF i > Len(objs) THEN [objs |-> objs, state |-> st]
    ELSE LET o == [objs[i] EXCEPT !.x = @ - 5]
             hit == \/ CollideRect(TopRect(o), PlayerHitbox(t))
                    \/ CollideRect(BotRect(o), PlayerHitbox(t))
         IN  FilterOnceLoop(i + 1, [objs EXCEPT ![i] = o],
                            IF hit THEN OVER ELSE st, t)

UpdateFilterOnce(g, t) ==
    LET p == PlayerUpdate([y |-> g.y, top |-> g.top, velocity_up |-> g.velocity_up])
        r == FilterOnceLoop(1, g.obstacles, g.state, t)
        kept == SelectSeq(r.objs, LAMBDA o : o.x + 80 > 9)
    IN  [state |-> r.state, y |-> p.y, top |-> t, velocity_up |-> p.velocity_up,
         obstacles |-> kept,
         obstacles_passed |-> g.obstacles_passed + (Len(r.objs) - Len(kept)),
         distance_traveled |-> g.distance_traveled + 1]

\* C15: from the same game the variant and update() reach the same game
\* (queue contents and order, obstacles_passed, state, distance_traveled, and
\* the player), tick after tick, so the two runs of the same add_obstacle(),
\* swim() and update() calls stay identical.
C15_FilterOnceEquivalent ==
    [][distance_traveled' = distance_traveled + 1 =>
         UpdateFilterOnce(Game, top') = Game']_vars

\* C15's case: swim() was called, the game ended, and both obstacles have been
\* dropped by the filter.
C15_Witness ==
    /\ swam
    /\ state = OVER
    /\ obstacles_passed = 2
    /\ obstacles = <<>>

\* C16 as stated: the decay of Player.update() drives velocity_up negative:
\* the update that takes a positive velocity_up to zero or below (the ceiling
\* branch, which assigns 0, aside) leaves it below zero.
C16_DecayGoesNegative ==
    [][(velocity_up > 0 /\ velocity_up' <= 0 /\ top >= 0) => velocity_up' < 0]_vars

\* C16, amended: after any sequence of swim() and update() calls velocity_up
\* is not negative: it is one of 0, 2, ..., 30, and the decay ends at 0.
C16_NeverNegative ==
    /\ velocity_up >= 0
    /\ velocity_up <= SwimVelocity
    /\ velocity_up % (Gravity \div 4) = 0

\* C16's case: the decay of a swim() has run to its end, inside the window.
C16_Witness == swam /\ branch = "free" /\ velocity_up = 0 /\ top > 0

\* The queue q runs from the oldest obstacle to the newest, with x not
\* decreasing, every obstacle having its right edge beyond 9.
FrontIsOldestAndLeftmost(q) ==
    /\ \A i, j \in DOMAIN q : i < j => (q[i].id < q[j].id /\ q[i].x <= q[j].x)
    /\ \A i \in DOMAIN q : q[i].x + 80 > 9

\* The obstacles of q that are not in r were at the front of q: whatever was
\* spawned before a missing one is missing too.
OnlyFrontRemoved(q, r) ==
    \A i, j \in DOMAIN q :
        (i < j /\ ~\E k \in DOMAIN r : r[k].id = q[j].id) =>
            ~\E k \in DOMAIN r : r[k].id = q[i].id

\* C17: between ticks the queue is ordered by x, not decreasing from the front
\* (the oldest obstacle) to the back, and every queued obstacle has
\* x + 80 > 9; the filter removes obstacles from the front only.
C17_RemovedFromFront ==
    [][/\ FrontIsOldestAndLeftmost(obstacles)
       /\ FrontIsOldestAndLeftmost(obstacles')
       /\ OnlyFrontRemoved(obstacles, obstacles')]_vars

\* C17's case: of two obstacles at different x the front one has been removed
\* and the back one is queued, at the last x it has on the screen.
C17_Witness ==
    /\ obstacles_passed = 1
    /\ Len(obstacles) = 1
    /\ obstacles[1].id = 2
    /\ obstacles[1].x = -70

\* C18: once a tick has set the state to OVER no further update() tick runs:
\* distance_traveled, the obstacles and obstacles_passed stay, up to the
\* report, what they were at the end of the tick that found the collision.
C18_NoTickAfterOver ==
    [][state = OVER =>
         UNCHANGED <<distance_traveled, obstacles, obstacles_passed>>]_vars

\* C19: on any queue, in any x order, get_next_obstacle() returns an obstacle
\* of the least top-rectangle centre x among those strictly ahead of the
\* player's centre, the first in queue order among equal least ones.
C19_FirstMinimumAhead ==
    (branch = "get_next_obstacle" /\ AheadSet # {}) =>
        \E i \in AheadSet :
            /\ returned = obstacles[i]
            /\ \A j \in AheadSet :
                  /\ ObstacleCenter(obstacles[i]) <= ObstacleCenter(obstacles[j])
                  /\ ObstacleCenter(obstacles[i]) = ObstacleCenter(obstacles[j])
                        => i <= j

\* C20: if swim() is never called, an obstacle is spawned while the game is
\* running and ticks keep being executed, the state eventually becomes OVER,
\* whatever the obstacle's offset from -100 to 100: the player, resting at the
\* floor, meets the obstacle's bottom rectangle.
C20_DriftEndsGame ==
    (state = RUNNING /\ spawned > 0 /\ ~swam) ~> (state = OVER)

\* C20's case: the game is over, nobody swam, and the player, at the floor, is
\* inside the bottom rectangle of the obstacle of the highest gap, not the top
\* one's.
C20_Witness ==
    /\ state = OVER
    /\ ~swam
    /\ top >= PlayerFloorY
    /\ Len(obstacles) = 1
    /\ obstacles[1].offset = -100
    /\ CollideRect(BotRect(obstacles[1]), PlayerHitbox(top))
    /\ ~CollideRect(TopRect(obstacles[1]), PlayerHitbox(top))

====
